---- MODULE Spec2Model ----
(***************************************************************************)
(* River pollutant dispersion model (src/pollutant.py).                    *)
(*                                                                         *)
(* Two specifications share the variables below.                           *)
(*                                                                         *)
(*  SpecEval  the evaluator calculate_concentration_instantaneous as a     *)
(*            function of its fourteen arguments: Init draws the arguments *)
(*            from bounded sets, Evaluate applies the function and         *)
(*            EvaluateAgain applies it a second time to the same argument  *)
(*            objects.                                                     *)
(*  Spec      one run of the Streamlit script, top to bottom: sidebar      *)
(*            inputs, the dispersion check, the plot settings, the grid    *)
(*            of the selected mode, the evaluator call and the rendering.  *)
(*                                                                         *)
(* Numbers.  The arguments of the evaluator are small integers, on which   *)
(* float64 subtraction, multiplication and squaring are exact.  The        *)
(* results of division, sqrt and exp are kept in closed form:              *)
(*   - an exponent is an extended rational: n/d, NaN, +inf or -inf,        *)
(*     with the IEEE results of dividing by zero;                          *)
(*   - a concentration is 0, NaN, +inf, -inf, or the closed form           *)
(*        m / ((4 pi ts)^1.5 sqrt(dp)) * exp(n/d)                          *)
(*     kept as the record of m, ts, dp, n, d.                              *)
(* Rounding, overflow and underflow of float64 are not modelled.           *)
(*                                                                         *)
(* Time.  In SpecEval time is counted in ticks of 0.5e-6 s, so that the    *)
(* floor 1e-6 of line 87 is the integer Eps = 2 and there are times        *)
(* below, at and above the floor.  The formula has no other dimensioned    *)
(* constant, so lengths, velocities and dispersion coefficients are in     *)
(* units per tick.                                                         *)
(***************************************************************************)
EXTENDS Integers, Sequences, FiniteSets, TLC

VARIABLES pc, params, args, C, C2, mode, n_pts, c_max, shown, calls, builds

vars == <<pc, params, args, C, C2, mode, n_pts, c_max, shown, calls, builds>>

(***************************************************************************)
(* Bounds of the evaluator's inputs.                                       *)
(***************************************************************************)
MaxT == 3
MaxLen == 2

\* the floor of np.maximum(t, 1e-6), in ticks
Eps == 2

TVals == -1..MaxT
MVals == {-1, 0, 1}
\* velocities <<u, v, w>>
Velocities == {<<0, 0, 0>>, <<1, 0, 0>>, <<1, 1, 0>>, <<0, 0, 1>>}
DVals == {-1, 0, 1}
\* coefficients <<Dx, Dy, Dz>>: every sign pattern, and unequal positive ones
Coefficients == (DVals \X DVals \X DVals) \cup {<<2, 1, 1>>, <<1, 2, 1>>, <<1, 1, 2>>}
X0Vals == {0, 1}
Y0Vals == {0}
Z0Vals == {0}
XVals == 0..(MaxT + 1)
YVals == {0, 1}
ZVals == {0, 1}

(***************************************************************************)
(* Arrays: a shape and the elements in row-major order.  A Python scalar   *)
(* is the array of shape <<>> with one element.                            *)
(***************************************************************************)
Max(a, b) == IF a >= b THEN a ELSE b

Scalar(v) == [shape |-> <<>>, data |-> <<v>>]

Array1(s) == [shape |-> <<Len(s)>>, data |-> s]

Pad(s, r) == [i \in 1..r |-> IF i <= r - Len(s) THEN 1 ELSE s[i - (r - Len(s))]]

\* numpy's broadcasting rule on shapes: right-aligned, a dimension of 1 stretches
Broadcastable(s1, s2) ==
    LET r == Max(Len(s1), Len(s2))
        p1 == Pad(s1, r)
        p2 == Pad(s2, r)
    IN  \A i \in 1..r : p1[i] = p2[i] \/ p1[i] = 1 \/ p2[i] = 1

BroadcastShape(s1, s2) ==
    LET r == Max(Len(s1), Len(s2))
        p1 == Pad(s1, r)
        p2 == Pad(s2, r)
    IN  [i \in 1..r |-> IF p1[i] = 1 THEN p2[i] ELSE p1[i]]

\* number of elements of an array of at most one dimension
Size1(s) == IF s = <<>> THEN 1 ELSE s[1]

\* element i of a (an array of at most one dimension) once broadcast
At(a, i) == IF Len(a.data) = 1 THEN a.data[1] ELSE a.data[i]

\* the index range of an array of shape s of at most one dimension
Range1(s) == 1..Size1(s)

(***************************************************************************)
(* float64 results in closed form.                                         *)
(***************************************************************************)
Fin(n, d) == [k |-> "fin", n |-> n, d |-> d]
NaN == [k |-> "nan", n |-> 0, d |-> 1]
PInf == [k |-> "pinf", n |-> 0, d |-> 1]
NInf == [k |-> "ninf", n |-> 0, d |-> 1]

\* num / den for integers; a zero den is +0.0
Divide(num, den) ==
    IF den = 0
    THEN IF num = 0 THEN NaN ELSE IF num > 0 THEN PInf ELSE NInf
    ELSE IF den > 0 THEN Fin(num, den) ELSE Fin(-num, -den)

Add(a, b) ==
    IF a.k = "nan" \/ b.k = "nan" THEN NaN
    ELSE IF a.k = "fin" /\ b.k = "fin" THEN Fin(a.n * b.d + b.n * a.d, a.d * b.d)
    ELSE IF a.k = "fin" THEN b
    ELSE IF b.k = "fin" THEN a
    ELSE IF a.k = b.k THEN a
    ELSE NaN

\* concentrations
Conc(k, m, ts, dp, n, d) == [k |-> k, m |-> m, ts |-> ts, dp |-> dp, n |-> n, d |-> d]
Zero == Conc("zero", 0, 0, 0, 0, 1)
CNaN == Conc("nan", 0, 0, 0, 0, 1)
CPInf == Conc("pinf", 0, 0, 0, 0, 1)
CNInf == Conc("ninf", 0, 0, 0, 0, 1)

\* np.exp: the closed form exp(n/d) is the concentration with prefactor 1
Exp(e) ==
    IF e.k = "nan" THEN CNaN
    ELSE IF e.k = "ninf" THEN Zero
    ELSE IF e.k = "pinf" THEN CPInf
    ELSE Conc("exp", 1, 0, 0, e.n, e.d)

\* prefactor * np.exp(...): p is a term1, e the result of Exp
Multiply(p, e) ==
    IF p.k = "nan" \/ e.k = "nan" THEN CNaN
    ELSE IF p.k \in {"pinf", "ninf"}
         THEN IF e.k = "zero" THEN CNaN ELSE p
    ELSE IF e.k = "pinf"
         THEN IF p.m = 0 THEN CNaN ELSE IF p.m > 0 THEN CPInf ELSE CNInf
    ELSE IF p.m = 0 \/ e.k = "zero" THEN Zero
    ELSE Conc("num", p.m, p.ts, p.dp, e.n, e.d)

(***************************************************************************)
(* The evaluator, lines 81-101, statement by statement on whole arrays.    *)
(***************************************************************************)
\* a variant of line 87 that replaces only the times that are not positive:
\* np.where(t > 0, t, 1e-6)
t_safe_where(t) ==
    [shape |-> t.shape,
     data |-> [i \in Range1(t.shape) |-> IF At(t, i) > 0 THEN At(t, i) ELSE Eps]]

\* line 87: t_safe = np.maximum(t, 1e-6), a new array
t_safe(t) ==
    [shape |-> t.shape, data |-> [i \in Range1(t.shape) |-> Max(At(t, i), Eps)]]

\* M / ((4 pi ts)^1.5 * sqrt(Dx*Dy*Dz)) at one element.  A product of the
\* coefficients that is zero keeps its sign (-0.0 when an odd number of them
\* is negative), sqrt keeps it, and M / -0.0 has the sign opposite to M's.
Term1At(M, ts, Dx, Dy, Dz) ==
    LET dp == Dx * Dy * Dz
        negs == Cardinality({i \in 1..3 : <<Dx, Dy, Dz>>[i] < 0})
        negzero == negs % 2 = 1
    IN  IF dp < 0 THEN CNaN
        ELSE IF dp = 0
             THEN IF M = 0 THEN CNaN
                  ELSE IF (M > 0) = (~negzero) THEN CPInf ELSE CNInf
        ELSE Conc("fin", M, ts, dp, 0, 1)

\* line 91
term1(M, ts, Dx, Dy, Dz) ==
    [shape |-> ts.shape,
     data |-> [i \in Range1(ts.shape) |-> Term1At(M, At(ts, i), Dx, Dy, Dz)]]

\* -((p - p0 - vel*ts)**2) / (4 * D * ts) at one element
ExpAt(p, p0, vel, D, ts) ==
    Divide(-((p - p0 - vel * ts) * (p - p0 - vel * ts)), 4 * D * ts)

\* a variant of line 92 with the advection added instead of subtracted
exp_x_plus(x, x0, u, Dx, ts) ==
    LET s == BroadcastShape(x.shape, ts.shape)
    IN  [shape |-> s,
         data |-> [i \in Range1(s) |->
                     Divide(-((At(x, i) - x0 + u * At(ts, i)) * (At(x, i) - x0 + u * At(ts, i))),
                            4 * Dx * At(ts, i))]]

\* line 92
exp_x(x, x0, u, Dx, ts) ==
    LET s == BroadcastShape(x.shape, ts.shape)
    IN  [shape |-> s, data |-> [i \in Range1(s) |-> ExpAt(At(x, i), x0, u, Dx, At(ts, i))]]

\* line 93
exp_y(y, y0, v, Dy, ts) ==
    LET s == BroadcastShape(y.shape, ts.shape)
    IN  [shape |-> s, data |-> [i \in Range1(s) |-> ExpAt(At(y, i), y0, v, Dy, At(ts, i))]]

\* line 94
exp_z(z, z0, w, Dz, ts) ==
    LET s == BroadcastShape(z.shape, ts.shape)
    IN  [shape |-> s, data |-> [i \in Range1(s) |-> ExpAt(At(z, i), z0, w, Dz, At(ts, i))]]

\* lines 91-96: the formula with ts in the place of time
RawC(ts, x, y, z, M, u, v, w, Dx, Dy, Dz, x0, y0, z0) ==
    LET t1 == term1(M, ts, Dx, Dy, Dz)
        ex == exp_x(x, x0, u, Dx, ts)
        ey == exp_y(y, y0, v, Dy, ts)
        ez == exp_z(z, z0, w, Dz, ts)
        s == BroadcastShape(BroadcastShape(t1.shape, ex.shape),
                            BroadcastShape(ey.shape, ez.shape))
    IN  [shape |-> s,
         data |-> [i \in Range1(s) |->
                     Multiply(At(t1, i), Exp(Add(Add(At(ex, i), At(ey, i)), At(ez, i))))]]

\* np.where(cond, a, 0.0)
Where(cond, a) ==
    LET s == BroadcastShape(cond.shape, a.shape)
    IN  [shape |-> s, data |-> [i \in Range1(s) |-> IF At(cond, i) THEN At(a, i) ELSE Zero]]

\* t > 0
Positive(t) == [shape |-> t.shape, data |-> [i \in Range1(t.shape) |-> At(t, i) > 0]]

\* a variant of line 99 that tests the clamped time: np.where(t_safe > 0, C, 0.0)
MaskOnSafe(t, Craw) == Where(Positive(t_safe(t)), Craw)

\* a variant of line 99 that tests the whole array at once:
\* C if np.all(t > 0) else np.zeros_like(C)
MaskAll(t, Craw) ==
    IF \A i \in Range1(t.shape) : At(t, i) > 0
    THEN Craw
    ELSE [shape |-> Craw.shape, data |-> [i \in Range1(Craw.shape) |-> Zero]]

\* line 99: C = np.where(t > 0, C, 0.0)
Mask(t, Craw) == Where(Positive(t), Craw)

calculate_concentration_instantaneous(t, x, y, z, M, u, v, w, Dx, Dy, Dz, x0, y0, z0) ==
    Mask(t, RawC(t_safe(t), x, y, z, M, u, v, w, Dx, Dy, Dz, x0, y0, z0))

\* the evaluator on a record of arguments and a record of parameters
Apply(a, p) ==
    calculate_concentration_instantaneous(a.t, a.x, a.y, a.z, p.M, p.u, p.v, p.w,
                                          p.Dx, p.Dy, p.Dz, p.x0, p.y0, p.z0)

\* a variant of line 87 that clamps in place: np.maximum(t, 1e-6, out=t)
ArgsClampedInPlace(a) == [a EXCEPT !.t = t_safe(a.t)]

\* a variant of the body that opens with a check of the coefficients and raises
RaisesOnNonPositive(p) == p.Dx <= 0 \/ p.Dy <= 0 \/ p.Dz <= 0

\* whether the call raises: the body holds no test of Dx, Dy, Dz and no raise
\* statement, and numpy divides by zero and takes sqrt of a negative number
\* with a warning, not an exception
Raises(p) == FALSE

\* what the call leaves in the caller's argument objects: every statement of
\* the body binds a new local array, none writes into an argument
ArgsAfterCall(a) == a

(***************************************************************************)
(* SpecEval: the evaluator on bounded arguments.                           *)
(***************************************************************************)
NoArray == [shape |-> <<>>, data |-> <<>>]

Defined(a) == a # NoArray

\* the shape the four coordinate arguments broadcast to
Shape4(a) ==
    BroadcastShape(BroadcastShape(a.t.shape, a.x.shape), BroadcastShape(a.y.shape, a.z.shape))

EvalParams ==
    {[M |-> m, u |-> vel[1], v |-> vel[2], w |-> vel[3],
      Dx |-> co[1], Dy |-> co[2], Dz |-> co[3], x0 |-> a, y0 |-> b, z0 |-> c] :
        m \in MVals, vel \in Velocities, co \in Coefficients,
        a \in X0Vals, b \in Y0Vals, c \in Z0Vals}

\* single-point calls: four Python scalars
PointArgs ==
    {[t |-> Scalar(a), x |-> Scalar(b), y |-> Scalar(c), z |-> Scalar(d)] :
        a \in TVals, b \in XVals, c \in YVals, d \in ZVals}

TElems == {-1, 1, MaxT}
XElems == {0, 1}

Arrays(S, n) == {Array1(s) : s \in [1..n -> S]}

\* the array 0, 1, ..., n-1
Arange(n) == Array1([i \in 1..n |-> i - 1])

\* bulk calls: t an array of n elements, x the array 0..n-1 or a scalar,
\* y and z scalars that broadcast
ArrayArgs ==
    UNION {{[t |-> a, x |-> b, y |-> Scalar(0), z |-> Scalar(0)] :
               a \in Arrays(TElems, n),
               b \in {Arange(n)} \cup {Scalar(e) : e \in XElems}} :
           n \in 1..MaxLen}

InitEval ==
    /\ pc = "ready"
    /\ params \in EvalParams
    /\ args \in PointArgs \cup ArrayArgs
    /\ C = NoArray
    /\ C2 = NoArray
    /\ mode = <<>>
    /\ n_pts = 0
    /\ c_max = NoArray
    /\ shown = <<>>
    /\ calls = <<>>
    /\ builds = 0

Evaluate ==
    /\ pc = "ready"
    /\ IF Raises(params)
       THEN /\ pc' = "raised"
            /\ UNCHANGED <<C, args>>
       ELSE /\ C' = Apply(args, params)
            /\ args' = ArgsAfterCall(args)
            /\ pc' = "returned"
    /\ UNCHANGED <<params, C2, mode, n_pts, c_max, shown, calls, builds>>

\* a second call on the same argument objects
EvaluateAgain ==
    /\ pc = "returned"
    /\ C2' = Apply(args, params)
    /\ args' = ArgsAfterCall(args)
    /\ pc' = "returned2"
    /\ UNCHANGED <<params, C, mode, n_pts, c_max, shown, calls, builds>>

NextEval == Evaluate \/ EvaluateAgain

SpecEval == InitEval /\ [][NextEval]_vars

(***************************************************************************)
(* Spec: one run of the script.                                            *)
(*                                                                         *)
(* The grids of the script have n_pts^3 elements with n_pts up to 50, and  *)
(* their coordinates are fractions.  An array of the script is therefore   *)
(* kept as its shape and the rule that gives the element at an index:      *)
(*   "full"  every element is the value v                                  *)
(*   "lin"   np.linspace(start, stop, num): element i (from 0) is          *)
(*           start + i*(stop - start)/(num - 1)                            *)
(*   "mesh"  output number axis of np.meshgrid(..., indexing='ij'):        *)
(*           the element at idx is element idx[axis] of the 1-D input      *)
(* Lengths are in units of 0.5 m (so that the minimum depth 0.5 is 1),     *)
(* times in seconds.  The script hands the grids to the evaluator; the     *)
(* concentration array is kept as its shape and the call it came from.     *)
(***************************************************************************)
Full(shape, v) == [shape |-> shape, gen |-> [kind |-> "full", v |-> v]]

\* np.linspace(start, stop, num)
Linspace(start, stop, num) ==
    [shape |-> <<num>>, gen |-> [kind |-> "lin", start |-> start, stop |-> stop, num |-> num]]

\* np.meshgrid(a1, a2, a3, indexing='ij')
Meshgrid(a1, a2, a3) ==
    LET s == <<a1.shape[1], a2.shape[1], a3.shape[1]>>
    IN  <<[shape |-> s, gen |-> [kind |-> "mesh", axis |-> 1, of |-> a1.gen]],
          [shape |-> s, gen |-> [kind |-> "mesh", axis |-> 2, of |-> a2.gen]],
          [shape |-> s, gen |-> [kind |-> "mesh", axis |-> 3, of |-> a3.gen]]>>

\* np.full_like(a, v)
FullLike(a, v) == Full(a.shape, v)

\* element i (from 0) of a linspace, as a fraction
LinElem(g, i) == Fin(g.start * (g.num - 1) + i * (g.stop - g.start), g.num - 1)

\* the element of array a at index idx (a tuple of positions from 0)
Elem(a, idx) ==
    IF a.gen.kind = "full" THEN Fin(a.gen.v, 1)
    ELSE IF a.gen.kind = "lin" THEN LinElem(a.gen, idx[1])
    ELSE LinElem(a.gen.of, idx[a.gen.axis])

\* --- widgets ---------------------------------------------------------------
\* st.number_input(..., min_value=lo): the values it can return among S
NumberInputMin(S, lo) == {val \in S : val >= lo}

\* st.number_input without min_value
NumberInput(S) == S

\* st.slider(label, lo, hi, ...)
Slider(S, lo, hi) == {val \in S : lo <= val /\ val <= hi}

\* values a user may type or drag to, before the widget's limits apply
LengthCand == {0, 20}
BreadthCand == {0, 4}
DepthCand == {0, 2}
VelCand == {1}
DispCand == {-1, 0, 1}
MassCand == {-1, 1}
X0Cand == {0, 2, 40}
Y0Cand == {2}
Z0Cand == {1}
SliceCand == {0, 2, 40}
SimTimeCand == {0, 10, 3610}
TMaxCand == {10, 600}

\* lines 47-49: min_value of L, W (in units of 0.5 m) and H
LMin == 20
WMin == 2
HMin == 1

\* a variant of lines 59-61 without min_value
DispersionInputNoMin == NumberInput(DispCand)

\* lines 59-61: Dx, Dy, Dz with min_value=0.0
DispersionInput == NumberInputMin(DispCand, 0)

\* lines 116-124: the options of the selectbox, as tokens
Option1 == <<"1.", "Space-Time", ":", "Time", "(X)", "vs", "Length", "(Y)", "vs", "Depth", "(Z)">>
Option2 == <<"2.", "Space-Time", ":", "Time", "(X)", "vs", "Length", "(Y)", "vs", "Breadth", "(Z)">>
Option3 == <<"3.", "Space-Time", ":", "Time", "(X)", "vs", "Depth", "(Y)", "vs", "Breadth", "(Z)">>
Option4 == <<"4.", "3D", "Spatial", "Snapshot", ":", "Length", "(X)", "vs", "Breadth", "(Y)", "vs",
             "Depth", "(Z)", "at", "fixed", "Time">>
Options == {Option1, Option2, Option3, Option4}

\* Python's `pat in str`, on tokens
In(pat, str) ==
    \E i \in 0..(Len(str) - Len(pat)) : \A j \in 1..Len(pat) : str[i + j] = pat[j]

\* the patterns tested at lines 134, 189, 203, 217
Pattern4 == <<"4.", "3D", "Spatial", "Snapshot">>
Pattern1 == <<"1.", "Space-Time">>
Pattern2 == <<"2.", "Space-Time">>
\* a variant of line 217 with a misspelt pattern
Pattern3Typo == <<"3.", "Space", "Time">>

\* line 217
Pattern3 == <<"3.", "Space-Time">>

\* lines 127-130
NLow == 20
NMedium == 35
NHigh == 50
NPts(res) == IF res = "Low" THEN NLow ELSE IF res = "Medium" THEN NMedium ELSE NHigh

\* a variant of line 186 without the count: np.linspace(1, t_max) has 50 samples
t_vals_default(t_max, n) == Linspace(1, t_max, 50)

\* line 186: t_vals = np.linspace(1, t_max, n_pts)
t_vals(t_max, n) == Linspace(1, t_max, n)

Undefined == [t |-> NoArray, x |-> NoArray, y |-> NoArray, z |-> NoArray]

Init ==
    /\ pc = "sidebar"
    /\ params = <<>>
    /\ args = Undefined
    /\ C = NoArray
    /\ C2 = NoArray
    /\ mode = <<>>
    /\ n_pts = 0
    /\ c_max = NoArray
    /\ shown = <<>>
    /\ calls = <<>>
    /\ builds = 0

\* lines 47-61
Sidebar ==
    /\ pc = "sidebar"
    /\ \E L \in NumberInputMin(LengthCand, LMin), W \in NumberInputMin(BreadthCand, WMin),
          H \in NumberInputMin(DepthCand, HMin),
          u \in NumberInput(VelCand), v \in NumberInput({0}), w_vel \in NumberInput({0}),
          Dx \in DispersionInput, Dy \in DispersionInput, Dz \in DispersionInput :
            params' = [L |-> L, W |-> W, H |-> H, u |-> u, v |-> v, w |-> w_vel,
                       Dx |-> Dx, Dy |-> Dy, Dz |-> Dz]
    /\ pc' = "check"
    /\ UNCHANGED <<args, C, C2, mode, n_pts, c_max, shown, calls, builds>>

\* lines 64-67, the branch taken: two error messages and st.stop()
CheckStops ==
    /\ pc = "check"
    /\ params.Dx = 0 \/ params.Dy = 0 \/ params.Dz = 0
    /\ shown' = shown \o <<"sidebar.error", "error">>
    /\ pc' = "stopped"
    /\ UNCHANGED <<params, args, C, C2, mode, n_pts, c_max, calls, builds>>

\* lines 64-76, the branch not taken, then the source term inputs
CheckPasses ==
    /\ pc = "check"
    /\ ~(params.Dx = 0 \/ params.Dy = 0 \/ params.Dz = 0)
    /\ \E M \in NumberInput(MassCand), x0 \in Slider(X0Cand, 0, params.L),
          y0 \in Slider(Y0Cand, 0, params.W), z0 \in Slider(Z0Cand, 0, params.H) :
            params' = [L |-> params.L, W |-> params.W, H |-> params.H,
                       u |-> params.u, v |-> params.v, w |-> params.w,
                       Dx |-> params.Dx, Dy |-> params.Dy, Dz |-> params.Dz,
                       M |-> M, x0 |-> x0, y0 |-> y0, z0 |-> z0]
    /\ pc' = "settings"
    /\ UNCHANGED <<args, C, C2, mode, n_pts, c_max, shown, calls, builds>>

\* lines 116-130
Settings ==
    /\ pc = "settings"
    /\ mode' \in Options
    /\ \E res \in {"Low", "Medium", "High"} : n_pts' = NPts(res)
    /\ pc' = "plot"
    /\ UNCHANGED <<params, args, C, C2, c_max, shown, calls, builds>>

\* lines 134-144: the snapshot branch up to the grid
Snapshot ==
    /\ pc = "plot"
    /\ In(Pattern4, mode)
    /\ \E sim_time \in Slider(SimTimeCand, 0, 3600) :
          LET x_vals == Linspace(0, params.L, n_pts)
              y_vals == Linspace(0, params.W, n_pts)
              z_vals == Linspace(0, params.H, n_pts)
              XYZ == Meshgrid(x_vals, y_vals, z_vals)
          IN  args' = [t |-> Full(<<>>, sim_time), x |-> XYZ[1], y |-> XYZ[2], z |-> XYZ[3]]
    /\ builds' = builds + 1
    /\ shown' = Append(shown, "info")
    /\ pc' = "call"
    /\ UNCHANGED <<params, C, C2, mode, n_pts, c_max, calls>>

\* lines 197-198, 211-212, 225-226: the grid of one space-time mode
Grid1(tv, p, n, slice_loc) ==
    LET TXZ == Meshgrid(tv, Linspace(0, p.L, n), Linspace(0, p.H, n))
    IN  [t |-> TXZ[1], x |-> TXZ[2], z |-> TXZ[3], y |-> FullLike(TXZ[1], slice_loc)]

Grid2(tv, p, n, slice_loc) ==
    LET TXY == Meshgrid(tv, Linspace(0, p.L, n), Linspace(0, p.W, n))
    IN  [t |-> TXY[1], x |-> TXY[2], y |-> TXY[3], z |-> FullLike(TXY[1], slice_loc)]

Grid3(tv, p, n, slice_loc) ==
    LET TZY == Meshgrid(tv, Linspace(0, p.H, n), Linspace(0, p.W, n))
    IN  [t |-> TZY[1], z |-> TZY[2], y |-> TZY[3], x |-> FullLike(TZY[1], slice_loc)]

\* lines 180-229: the else branch up to the grid; with no test of 189, 203,
\* 217 true no grid is bound
SpaceTime ==
    /\ pc = "plot"
    /\ ~In(Pattern4, mode)
    /\ \E t_max \in Slider(TMaxCand, 60, 7200) :
          LET tv == t_vals(t_max, n_pts)
          IN  IF In(Pattern1, mode)
              THEN /\ \E s \in Slider(SliceCand, 0, params.W) : args' = Grid1(tv, params, n_pts, s)
                   /\ builds' = builds + 1
              ELSE IF In(Pattern2, mode)
              THEN /\ \E s \in Slider(SliceCand, 0, params.H) : args' = Grid2(tv, params, n_pts, s)
                   /\ builds' = builds + 1
              ELSE IF In(Pattern3, mode)
              THEN /\ \E s \in Slider(SliceCand, 0, params.L) : args' = Grid3(tv, params, n_pts, s)
                   /\ builds' = builds + 1
              ELSE UNCHANGED <<args, builds>>
    /\ shown' = Append(shown, "info")
    /\ pc' = "call"
    /\ UNCHANGED <<params, C, C2, mode, n_pts, c_max, calls>>

\* lines 148 and 234: the call; a name never bound raises NameError
Call ==
    /\ pc = "call"
    /\ IF Defined(args.t) /\ Defined(args.x) /\ Defined(args.y) /\ Defined(args.z)
       THEN /\ calls' = Append(calls, [a |-> args, p |-> params])
            /\ C' = [shape |-> Shape4(args), gen |-> [kind |-> "conc", call |-> Len(calls) + 1]]
            /\ pc' = "render"
       ELSE /\ pc' = "NameError"
            /\ UNCHANGED <<calls, C>>
    /\ UNCHANGED <<params, args, C2, mode, n_pts, c_max, shown, builds>>

\* lines 151-178 and 237-265
Render ==
    /\ pc = "render"
    /\ c_max' = [shape |-> <<>>, gen |-> [kind |-> "max", of |-> C.gen]]
    /\ shown' = shown \o <<"plotly_chart", "write">>
    /\ pc' = "done"
    /\ UNCHANGED <<params, args, C, C2, mode, n_pts, calls, builds>>

Next == Sidebar \/ CheckStops \/ CheckPasses \/ Settings \/ Snapshot \/ SpaceTime \/ Call \/ Render

Spec == Init /\ [][Next]_vars

(***************************************************************************)
(* Properties of the evaluator (checked under SpecEval).                   *)
(***************************************************************************)
Returned == pc \in {"returned", "returned2"}

PosD == params.Dx > 0 /\ params.Dy > 0 /\ params.Dz > 0

\* the query point at index i of the broadcast arguments, as four scalars
PointOf(a, i) ==
    [t |-> Scalar(At(a.t, i)), x |-> Scalar(At(a.x, i)),
     y |-> Scalar(At(a.y, i)), z |-> Scalar(At(a.z, i))]

IsPoint(a) == a.t.shape = <<>> /\ a.x.shape = <<>> /\ a.y.shape = <<>> /\ a.z.shape = <<>>

\* the formula of lines 91-96 at one point with tt in the place of time
FormulaAt(tt, q, p) ==
    RawC(Scalar(tt), q.x, q.y, q.z, p.M, p.u, p.v, p.w, p.Dx, p.Dy, p.Dz,
         p.x0, p.y0, p.z0).data[1]

NotFinite(c) == c.k \in {"nan", "pinf", "ninf"}

\* c >= 0 as float64 compares: false for NaN
NonNegative(c) == c.k \in {"zero", "pinf"} \/ (c.k = "num" /\ c.m > 0)

\* a <= b for two concentrations with the same positive prefactor
Leq(a, b) ==
    \/ a.k = "zero" /\ b.k \in {"zero", "num"}
    \/ /\ a.k = "num" /\ b.k = "num"
       /\ a.m = b.m /\ a.ts = b.ts /\ a.dp = b.dp /\ a.m > 0
       /\ a.n * b.d <= b.n * a.d

\* C1: with Dx, Dy, Dz > 0, every output element whose own time is <= 0 is
\* exactly 0, at every point (the release point included) and for every M, u, v, w
C1_ZeroBeforeRelease ==
    (Returned /\ PosD) =>
        /\ C.shape = Shape4(args)
        /\ \A i \in 1..Len(C.data) : At(args.t, i) <= 0 => C.data[i] = Zero

C1_Witness ==
    /\ pc = "returned" /\ PosD /\ IsPoint(args) /\ params.M # 0
    /\ args.t = Scalar(0)
    /\ args.x = Scalar(params.x0) /\ args.y = Scalar(params.y0) /\ args.z = Scalar(params.z0)
    /\ C = Scalar(Zero)

\* C2 as stated: a call with some coefficient <= 0 is rejected, it returns no
\* concentration array
C2_RejectsNonPositive == (pc # "ready" /\ ~PosD) => (pc = "raised" /\ C = NoArray)

\* C2 amended: a call with some coefficient <= 0 does not fail; it returns an
\* array with one element per query point, 0 where t <= 0 and, where t > 0 and
\* Dx*Dy*Dz <= 0 (so whenever a coefficient is 0), NaN or an infinity
C2_ComputesSilently ==
    (pc # "ready" /\ ~PosD) =>
        /\ Returned
        /\ C.shape = Shape4(args)
        /\ DOMAIN C.data = Range1(Shape4(args))
        /\ \A i \in 1..Len(C.data) :
              /\ At(args.t, i) <= 0 => C.data[i] = Zero
              /\ (At(args.t, i) > 0 /\ params.Dx * params.Dy * params.Dz <= 0)
                    => NotFinite(C.data[i])

C2_Witness ==
    /\ pc = "returned" /\ params.Dx = 0 /\ params.Dy > 0 /\ params.Dz > 0
    /\ IsPoint(args) /\ args.t = Scalar(MaxT)
    /\ NotFinite(C.data[1])

\* C3 as stated: with Dx, Dy, Dz > 0 every element of the result is >= 0,
\* for every M the routine accepts
C3_NonNegative ==
    (Returned /\ PosD) => \A i \in 1..Len(C.data) : NonNegative(C.data[i])

\* C5: the output is 0 for t <= 0, the formula at 1e-6 for 0 < t < 1e-6 and
\* the formula at t for t >= 1e-6; no call raises
C5_ClampThenMask ==
    /\ pc # "raised"
    /\ Returned =>
        \A i \in 1..Len(C.data) :
            LET ti == At(args.t, i)
            IN  C.data[i] = IF ti <= 0 THEN Zero
                            ELSE IF ti < Eps THEN FormulaAt(Eps, PointOf(args, i), params)
                            ELSE FormulaAt(ti, PointOf(args, i), params)

C5_Witness ==
    /\ pc = "returned" /\ PosD /\ params.M > 0 /\ IsPoint(args)
    /\ args.t.data[1] > 0 /\ args.t.data[1] < Eps
    /\ C.data[1].k = "num" /\ C.data[1].ts = Eps

\* C6: the result has one element per index of the broadcast arguments, the
\* element at an index is the result of the single-point call at that index,
\* and it is 0 where t <= 0, whatever the other entries of t are
C6_Elementwise ==
    Returned =>
        /\ C.shape = Shape4(args)
        /\ DOMAIN C.data = Range1(Shape4(args))
        /\ \A i \in 1..Len(C.data) :
              /\ C.data[i] = Apply(PointOf(args, i), params).data[1]
              /\ At(args.t, i) <= 0 => C.data[i] = Zero

C6_Witness ==
    /\ pc = "returned" /\ PosD /\ params.M > 0
    /\ args.t = Array1(<<-1, 1>>) /\ args.x.shape = <<2>>
    /\ C.data[1] = Zero /\ C.data[2].k = "num"

\* the space points the maximum is taken over
SpacePoints == {[x |-> Scalar(a), y |-> Scalar(b), z |-> Scalar(c)] :
                   a \in XVals, b \in YVals, c \in ZVals}

\* a single-point call at time t1 > 0 and abscissa px, on the line y = y0,
\* z = z0, with M > 0, positive coefficients and v = w = 0
PeakCase(px) ==
    /\ pc = "returned" /\ IsPoint(args) /\ PosD
    /\ params.M > 0 /\ params.v = 0 /\ params.w = 0
    /\ args.t.data[1] > 0
    /\ args.x.data[1] = px
    /\ args.y.data[1] = params.y0 /\ args.z.data[1] = params.z0

IsMaximum(c) ==
    \A q \in SpacePoints :
        Leq(Apply([t |-> args.t, x |-> q.x, y |-> q.y, z |-> q.z], params).data[1], c)

\* C7 as stated: the maximum over space at time t1 > 0 is attained at
\* x = x0 + u*t1 (the release point when u = 0), for any t1 > 0
C7_PeakAtUT1 ==
    PeakCase(params.x0 + params.u * args.t.data[1]) => IsMaximum(C.data[1])

\* C7 amended: the maximum over space at time t1 > 0 is attained at
\* x = x0 + u*max(t1, 1e-6), y = y0, z = z0: the release point when u = 0,
\* and x0 + u*t1 when t1 >= 1e-6
C7_PeakAtUTSafe ==
    PeakCase(params.x0 + params.u * Max(args.t.data[1], Eps)) => IsMaximum(C.data[1])

C7_Witness ==
    /\ PeakCase(params.x0 + params.u * Eps)
    /\ params.u # 0 /\ args.t.data[1] < Eps
    /\ C.data[1].k = "num"

NonPositiveD(p) == p.Dx <= 0 \/ p.Dy <= 0 \/ p.Dz <= 0

\* C4: every call of the evaluator has Dx, Dy, Dz > 0, and a run whose
\* accepted coefficients are not all positive is stopped with the error
\* messages before any grid is built, any call made or any plot rendered
C4_DispersionEnforced ==
    /\ \A i \in 1..Len(calls) : ~NonPositiveD(calls[i].p)
    /\ (pc \notin {"sidebar", "check"} /\ NonPositiveD(params)) =>
          /\ pc = "stopped"
          /\ shown = <<"sidebar.error", "error">>
    /\ pc = "stopped" =>
          /\ builds = 0 /\ calls = <<>> /\ args = Undefined
          /\ C = NoArray /\ c_max = NoArray

C4_Witness ==
    /\ pc = "stopped" /\ params.Dx > 0 /\ params.Dy = 0 /\ params.Dz > 0
    /\ shown = <<"sidebar.error", "error">> /\ builds = 0 /\ calls = <<>>

\* position i (from 0) on axis k of a three-dimensional index, 0 elsewhere
OnAxis(k, i) == [j \in 1..3 |-> IF j = k THEN i ELSE 0]

\* the axes along which the elements of a change
FreeAxes(a) ==
    {k \in 1..Len(a.shape) :
        \E i \in 1..(a.shape[k] - 1) : Elem(a, OnAxis(k, i)) # Elem(a, OnAxis(k, 0))}

\* a is the same value at every index of shape s
Pinned(a, s) ==
    /\ Broadcastable(a.shape, s)
    /\ \A i \in 0..(s[1] - 1), j \in 0..(s[2] - 1), k \in 0..(s[3] - 1) :
          Elem(a, <<i, j, k>>) = Elem(a, <<0, 0, 0>>)

AllBroadcastable(a, s) ==
    /\ \A f, g \in {a.t, a.x, a.y, a.z} : Broadcastable(f.shape, g.shape)
    /\ \A f \in {a.t, a.x, a.y, a.z} : BroadcastShape(f.shape, s) = s
    /\ Shape4(a) = s

\* C9: in every mode and at every resolution the four coordinate arrays are
\* mutually broadcastable to n_pts x n_pts x n_pts with three free axes: in
\* the snapshot time is one value and x, y, z each vary along an axis of
\* their own; in a space-time mode time and two coordinates each vary along
\* an axis of their own and the third coordinate is one value everywhere
C9_GridShapes ==
    pc = "call" =>
        LET s == <<n_pts, n_pts, n_pts>>
            a == args
        IN  /\ n_pts \in {20, 35, 50}
            /\ AllBroadcastable(a, s)
            /\ mode = Option4 =>
                  /\ a.t.shape = <<>>
                  /\ FreeAxes(a.x) = {1} /\ FreeAxes(a.y) = {2} /\ FreeAxes(a.z) = {3}
            /\ mode = Option1 =>
                  /\ FreeAxes(a.t) = {1} /\ FreeAxes(a.x) = {2} /\ FreeAxes(a.z) = {3}
                  /\ Pinned(a.y, s)
            /\ mode = Option2 =>
                  /\ FreeAxes(a.t) = {1} /\ FreeAxes(a.x) = {2} /\ FreeAxes(a.y) = {3}
                  /\ Pinned(a.z, s)
            /\ mode = Option3 =>
                  /\ FreeAxes(a.t) = {1} /\ FreeAxes(a.z) = {2} /\ FreeAxes(a.y) = {3}
                  /\ Pinned(a.x, s)

C9_Witness ==
    /\ pc = "call" /\ mode = Option3 /\ n_pts = 50
    /\ args.x = Full(<<50, 50, 50>>, 2)
    /\ args.t.shape = <<50, 50, 50>> /\ FreeAxes(args.t) = {1}

\* C10: a run that passes the check builds one grid, then calls the evaluator
\* once with t, x, y, z all bound, then takes the maximum and renders; every
\* one of the four modes binds its grid
C10_OneBuildOneCall ==
    /\ pc # "NameError"
    /\ pc \in {"sidebar", "check", "settings", "plot", "stopped"} =>
          /\ builds = 0 /\ calls = <<>> /\ args = Undefined
          /\ C = NoArray /\ c_max = NoArray
    /\ pc = "call" =>
          /\ builds = 1 /\ calls = <<>>
          /\ Defined(args.t) /\ Defined(args.x) /\ Defined(args.y) /\ Defined(args.z)
          /\ C = NoArray /\ c_max = NoArray
    /\ pc = "render" =>
          /\ builds = 1 /\ Len(calls) = 1 /\ calls[1].a = args
          /\ C # NoArray /\ c_max = NoArray
    /\ pc = "done" =>
          /\ builds = 1 /\ Len(calls) = 1 /\ calls[1].a = args
          /\ C # NoArray /\ c_max = [shape |-> <<>>, gen |-> [kind |-> "max", of |-> C.gen]]
          /\ shown = <<"info", "plotly_chart", "write">>

C10_Witness ==
    /\ pc = "done" /\ mode = Option3
    /\ builds = 1 /\ Len(calls) = 1 /\ c_max # NoArray

====
